---- MODULE Spec2Model ----
(***************************************************************************)
(* A model of once_per_worker.py: the process-wide registry of             *)
(* OncePerWorker handles (`_instances`, guarded by `_instances_lock`), the *)
(* double-checked lazy initialisation of a handle's value (`_get_value`),  *)
(* attribute forwarding (`__getattr__`) and pickling by                    *)
(* (instance_for_function, (func, token)) (`__reduce__`).                  *)
(*                                                                         *)
(* Several worker processes each hold their own registry; threads of one   *)
(* process interleave at the granularity of the statements below.  A       *)
(* factory invocation is split into its start and its end (a return of a   *)
(* value, a return of None, or an exception).                              *)
(***************************************************************************)
EXTENDS Integers, Sequences, FiniteSets, TLC

\* ------------------------------------------------------------------ bounds
\* The number of top-level operations (calls made by the threads) in a run:
\* of Spec, which draws the arguments from all of the universe below, and of
\* SpecDeep, which draws them from a part of it and runs longer.
\* SpecPair runs two threads of one process on the tokens "a" and "b";
\* SpecLive is the specification with fairness.
MaxOps == 3
MaxDeepOps == 5
MaxPairOps == 4
MaxLiveOps == 4

\* ------------------------------------------------------------ the universe
Procs == {"p1", "p2"}
Threads == {"t1", "t2", "t3"}
ProcOf(t) == IF t = "t3" THEN "p2" ELSE "p1"

Funcs == {"f", "g"}

\* An optional explicit token: <<>> is Python's None, <<s>> the string s.
NoToken == <<>>
ExplicitTokens == {NoToken, <<"">>, <<"a">>, <<"b">>}

\* dask.base.tokenize(func): a deterministic, non-empty hash string.
tokenize(func) == "tok_" \o func

Tokens == {"a", "b"} \cup {tokenize(fn) : fn \in Funcs}

NoThread == "none"
NoHandle == 0
NoValue == 0
NoState == 0

\* The names __getattr__ refuses to forward.
Reserved == {"__dask_graph__", "__name__", "__dask_tokenize__"}
\* "x" is an attribute every factory result has, "y" one it lacks.
Attrs == Reserved \cup {"x", "y"}
ValueHas(attr) == attr = "x"

VARIABLES
    instances,       \* [Procs -> [Tokens -> handle id or NoHandle]]: OncePerWorker._instances
    instances_lock,  \* [Procs -> thread or NoThread]: OncePerWorker._instances_lock
    handles,         \* the OncePerWorker objects ever constructed, by id
    wire,            \* pickled handles: the reduce tuples produced so far
    calls,           \* the factory invocations so far, in order of their start
    pc,              \* [Threads -> position]
    frame,           \* [Threads -> the locals of the operation in progress]
    last,            \* the outcome of the operation that completed last
    returned,        \* the <<handle, value, path>> triples _get_value has returned
    nops             \* operations started

vars == <<instances, instances_lock, handles, wire, calls, pc, frame, last, returned, nops>>

HandleIds == 1..Len(handles)
CallIds == 1..Len(calls)

\* ------------------------------------------------------- pure definitions

\* line 66: token_ = token or dask.base.tokenize(func)
Truthy(token) == token # NoToken /\ token[1] # ""
\* (a variant that always hashes the function, whatever token is given)
ResolveTokenByHash(func, token) == tokenize(func)
ResolveToken(func, token) == IF Truthy(token) THEN token[1] ELSE tokenize(func)

\* (a variant of __init__ that fills the value slot at construction)
NewHandleEager(func, token, proc) ==
    [func |-> func, token |-> token, lock |-> NoThread, value |-> 1, proc |-> proc]
\* __init__ (lines 80-84): a fresh handle with an unlocked lock and no value.
NewHandle(func, token, proc) ==
    [func |-> func, token |-> token, lock |-> NoThread, value |-> NoValue, proc |-> proc]

\* (a variant in which the with blocks do not exclude one another)
CanAcquireAlways(lock) == TRUE
\* `with lock:` entry: a threading.Lock is taken only when nobody holds it.
CanAcquire(lock) == lock = NoThread

\* (a variant without the lookup: every call constructs and inserts)
PresentNever(reg, token) == FALSE
\* lines 69-72: cls._instances[token_] succeeds unless KeyError.
Present(reg, token) == reg[token] # NoHandle

\* lines 87 and 95: self._value is not None
Populated(value) == value # NoValue

\* (a variant without the second check: whoever gets the lock calls the factory)
SkipRecheck(value) == TRUE
\* line 92, under the lock: self._value is None
StillEmpty(value) == value = NoValue

\* (a variant that rebuilds through the class itself, not through the registry)
ReduceViaInit(handle) ==
    [callable |-> "__init__", func |-> handle.func, token |-> <<handle.token>>]
\* line 78: the reduce tuple's callable and arguments,
\* (self.instance_for_function, (self._func, self._token)) ...
ReduceArgs(handle) ==
    [callable |-> "instance_for_function", func |-> handle.func, token |-> <<handle.token>>]
\* (a variant that ships the cached value as the object's state)
ReduceStateValue(handle) == handle.value
\* ... and its third element, an object state to restore: __reduce__ gives none.
ReduceState(handle) == NoState

\* Unpickling restores a state onto the rebuilt object when the tuple has one.
Restore(handle, state) ==
    IF state = NoState THEN handle ELSE [handle EXCEPT !.value = state]

\* (a variant of the guard that knows one of the three names only)
IsReservedGraphOnly(attr) == attr = "__dask_graph__"
\* line 99: the reserved-name guard of __getattr__.
IsReserved(attr) == attr \in Reserved

\* The locals of an operation in progress (IdleFrame: none in progress).
IdleFrame ==
    [op |-> "none", func |-> "", token |-> NoToken, token_ |-> "", h |-> NoHandle,
     attr |-> "", origin |-> NoHandle, state |-> NoState, call |-> 0]

\* The outcome of an operation: what it returned or raised
\* (fr: the operation's locals; created: it constructed h).
Outcome(t, fr, kind, h, val, created) ==
    [op |-> fr.op, func |-> fr.func, token_ |-> fr.token_, origin |-> fr.origin,
     proc |-> ProcOf(t), kind |-> kind, h |-> h, val |-> val, created |-> created]
NoOutcome == Outcome("t1", IdleFrame, "none", NoHandle, NoValue, FALSE)

\* ------------------------------------------------------------------- Init
Init ==
    /\ instances = [p \in Procs |-> [k \in Tokens |-> NoHandle]]
    /\ instances_lock = [p \in Procs |-> NoThread]
    /\ handles = <<>>
    /\ wire = {}
    /\ calls = <<>>
    /\ pc = [t \in Threads |-> "idle"]
    /\ frame = [t \in Threads |-> IdleFrame]
    /\ last = NoOutcome
    /\ returned = {}
    /\ nops = 0

\* The operation of thread t ends: its locals are gone.
Leave(t) ==
    /\ pc' = [pc EXCEPT ![t] = "idle"]
    /\ frame' = [frame EXCEPT ![t] = IdleFrame]

\* ------------------------------------------------ instance_for_function
\* Entry of instance_for_function(func, token), line 66.
EnterIfn(t, op, func, token, origin, state) ==
    /\ pc[t] = "idle"
    /\ nops' = nops + 1
    /\ frame' = [frame EXCEPT ![t] =
                    [IdleFrame EXCEPT !.op = op, !.func = func, !.token = token,
                                      !.token_ = ResolveToken(func, token),
                                      !.origin = origin, !.state = state]]
    /\ pc' = [pc EXCEPT ![t] = "ifn_lock"]
    /\ UNCHANGED <<instances, instances_lock, handles, wire, calls, last, returned>>

\* A direct call of OncePerWorker.instance_for_function(func, token).
InstanceForFunction(t, func, token) ==
    EnterIfn(t, "instance_for_function", func, token, NoHandle, NoState)

\* once_per_worker(func), lines 134-136: instance_for_function(func), wrapped
\* in dask.delayed (which does not touch the handle: traverse=False).
OncePerWorker(t, func) ==
    EnterIfn(t, "once_per_worker", func, NoToken, NoHandle, NoState)

\* line 68: with cls._instances_lock
IfnAcquire(t) ==
    /\ pc[t] = "ifn_lock"
    /\ CanAcquire(instances_lock[ProcOf(t)])
    /\ instances_lock' = [instances_lock EXCEPT ![ProcOf(t)] = t]
    /\ pc' = [pc EXCEPT ![t] = "ifn_try"]
    /\ UNCHANGED <<instances, handles, wire, calls, frame, last, returned, nops>>

\* (a variant that returns from inside the with block without releasing)
KeepRegistryLocked(t) == UNCHANGED instances_lock
\* The lock is released on leaving the with block, if this thread holds it.
ReleaseRegistry(t) ==
    instances_lock' = [instances_lock EXCEPT ![ProcOf(t)] =
                          IF @ = t THEN NoThread ELSE @]

\* lines 69-70: return cls._instances[token_]
IfnHit(t) ==
    /\ pc[t] = "ifn_try"
    /\ Present(instances[ProcOf(t)], frame[t].token_)
    /\ LET h == instances[ProcOf(t)][frame[t].token_] IN
        /\ handles' = [handles EXCEPT ![h] = Restore(@, frame[t].state)]
        /\ last' = Outcome(t, frame[t], "ok", h, NoValue, FALSE)
    /\ ReleaseRegistry(t)
    /\ Leave(t)
    /\ UNCHANGED <<instances, wire, calls, returned, nops>>

\* lines 71-72: except KeyError: pass
IfnMiss(t) ==
    /\ pc[t] = "ifn_try"
    /\ ~Present(instances[ProcOf(t)], frame[t].token_)
    /\ pc' = [pc EXCEPT ![t] = "ifn_new"]
    /\ UNCHANGED <<instances, instances_lock, handles, wire, calls, frame, last, returned, nops>>

\* lines 74-75: construct the handle, insert it and return it.
IfnNew(t) ==
    /\ pc[t] = "ifn_new"
    /\ LET h == Len(handles) + 1 IN
        /\ handles' = Append(handles,
                             Restore(NewHandle(frame[t].func, frame[t].token_, ProcOf(t)),
                                     frame[t].state))
        /\ instances' = [instances EXCEPT ![ProcOf(t)][frame[t].token_] = h]
        /\ last' = Outcome(t, frame[t], "ok", h, NoValue, TRUE)
    /\ ReleaseRegistry(t)
    /\ Leave(t)
    /\ UNCHANGED <<wire, calls, returned, nops>>

\* ------------------------------------------------------------- pickling
\* pickle.dumps(handle): __reduce__, lines 77-78.
Reduce(t, h) ==
    /\ pc[t] = "idle"
    /\ h \in HandleIds
    /\ handles[h].proc = ProcOf(t)
    /\ nops' = nops + 1
    /\ wire' = wire \cup {[args |-> ReduceArgs(handles[h]),
                           state |-> ReduceState(handles[h]),
                           origin |-> h]}
    /\ last' = Outcome(t, [IdleFrame EXCEPT !.op = "reduce", !.h = h], "ok", h, NoValue, FALSE)
    /\ UNCHANGED <<instances, instances_lock, handles, calls, pc, frame, returned>>

\* pickle.loads in the process of thread t: the reduce tuple's callable is
\* applied to its arguments. The callable is instance_for_function; a class
\* as the callable would construct an object outside the registry.
Unpickle(t, m) ==
    /\ m \in wire
    /\ IF m.args.callable = "instance_for_function"
       THEN EnterIfn(t, "unpickle", m.args.func, m.args.token, m.origin, m.state)
       ELSE /\ pc[t] = "idle"
            /\ nops' = nops + 1
            /\ handles' = Append(handles,
                                 Restore(NewHandle(m.args.func, m.args.token[1], ProcOf(t)),
                                         m.state))
            /\ last' = Outcome(t, [IdleFrame EXCEPT !.op = "unpickle", !.func = m.args.func,
                                                    !.token_ = m.args.token[1],
                                                    !.origin = m.origin],
                               "ok", Len(handles) + 1, NoValue, TRUE)
            /\ UNCHANGED <<instances, instances_lock, wire, calls, pc, frame, returned>>

\* ------------------------------------------------- __getattr__ / _get_value
\* handle.attr, lines 98-101.
GetAttr(t, h, attr) ==
    /\ pc[t] = "idle"
    /\ h \in HandleIds
    /\ handles[h].proc = ProcOf(t)
    /\ nops' = nops + 1
    /\ LET fr == [IdleFrame EXCEPT !.op = "getattr", !.h = h, !.attr = attr] IN
        IF IsReserved(attr)
        THEN /\ last' = Outcome(t, fr, "AttributeError", h, NoValue, FALSE)
             /\ UNCHANGED <<pc, frame>>
        ELSE /\ pc' = [pc EXCEPT ![t] = "gv_check1"]
             /\ frame' = [frame EXCEPT ![t] = fr]
             /\ UNCHANGED last
    /\ UNCHANGED <<instances, instances_lock, handles, wire, calls, returned>>

\* _get_value has returned value v, by the path at line 89 ("fast") or the one
\* at line 96 ("locked"): line 101 applies getattr to it.
Forward(t, v, path) ==
    /\ returned' = returned \cup {<<frame[t].h, v, path>>}
    /\ last' = Outcome(t, frame[t], IF ValueHas(frame[t].attr) THEN "ok" ELSE "AttributeError",
                       frame[t].h, v, FALSE)
    /\ Leave(t)

\* lines 87-89: the unlocked first check.
GvCheck1(t) ==
    /\ pc[t] = "gv_check1"
    /\ LET v == handles[frame[t].h].value IN
        IF Populated(v)
        THEN /\ Forward(t, v, "fast")
             /\ UNCHANGED <<instances, instances_lock, handles, wire, calls, nops>>
        ELSE /\ pc' = [pc EXCEPT ![t] = "gv_lock"]
             /\ UNCHANGED <<instances, instances_lock, handles, wire, calls, frame, last,
                            returned, nops>>

\* (a variant with one lock for all the handles of a process, a class attribute)
SharedLock(h) ==
    LET held == {k \in HandleIds : handles[k].proc = handles[h].proc
                                     /\ handles[k].lock # NoThread}
    IN  IF held = {} THEN NoThread ELSE handles[CHOOSE k \in held : TRUE].lock
\* self._lock: the lock __init__ (line 83) made for this handle alone.
LockOf(h) == handles[h].lock

\* line 91: with self._lock
GvAcquire(t) ==
    /\ pc[t] = "gv_lock"
    /\ CanAcquire(LockOf(frame[t].h))
    /\ handles' = [handles EXCEPT ![frame[t].h].lock = t]
    /\ pc' = [pc EXCEPT ![t] = "gv_check2"]
    /\ UNCHANGED <<instances, instances_lock, wire, calls, frame, last, returned, nops>>

\* lines 92-94: the second check; when the slot is empty self._func() is called.
GvCheck2(t) ==
    /\ pc[t] = "gv_check2"
    /\ LET h == frame[t].h IN
        IF StillEmpty(handles[h].value)
        THEN /\ calls' = Append(calls, [h |-> h, func |-> handles[h].func, outcome |-> "running"])
             /\ frame' = [frame EXCEPT ![t].call = Len(calls) + 1]
             /\ pc' = [pc EXCEPT ![t] = "in_func"]
        ELSE /\ pc' = [pc EXCEPT ![t] = "gv_assert"]
             /\ UNCHANGED <<calls, frame>>
    /\ UNCHANGED <<instances, instances_lock, handles, wire, last, returned, nops>>

\* (a variant that leaves the with block without releasing the lock)
KeepLocked(handle, t) == handle
\* The handle lock is released on leaving the with block, if this thread holds it.
Unlocked(handle, t) ==
    IF handle.lock = t THEN [handle EXCEPT !.lock = NoThread] ELSE handle

\* (a variant that records a None result as a populated slot, as a separate
\* populated flag would)
StoredFlagged(result, c) == c
\* What self._value holds after line 94 stored the result of invocation c:
\* the object returned, or None.
Stored(result, c) == IF result = "value" THEN c ELSE NoValue

\* line 94: the factory returns an object (result "value", identified by its
\* invocation) or None (result "none"); the result is stored in self._value.
FactoryReturn(t, result) ==
    /\ pc[t] = "in_func"
    /\ LET c == frame[t].call IN
        /\ calls' = [calls EXCEPT ![c].outcome = IF result = "value" THEN "returned" ELSE "none"]
        /\ handles' = [handles EXCEPT ![frame[t].h].value = Stored(result, c)]
    /\ pc' = [pc EXCEPT ![t] = "gv_assert"]
    /\ UNCHANGED <<instances, instances_lock, wire, frame, last, returned, nops>>

\* line 94: the factory raises; the with block releases the lock and the
\* exception leaves _get_value and __getattr__.
FactoryRaise(t) ==
    /\ pc[t] = "in_func"
    /\ calls' = [calls EXCEPT ![frame[t].call].outcome = "raised"]
    /\ handles' = [handles EXCEPT ![frame[t].h] = Unlocked(@, t)]
    /\ last' = Outcome(t, frame[t], "Exception", frame[t].h, NoValue, FALSE)
    /\ Leave(t)
    /\ UNCHANGED <<instances, instances_lock, wire, returned, nops>>

\* lines 95-96: assert self._value is not None; return self._value
GvAssert(t) ==
    /\ pc[t] = "gv_assert"
    /\ LET h == frame[t].h
           v == handles[h].value IN
        /\ handles' = [handles EXCEPT ![h] = Unlocked(@, t)]
        /\ IF Populated(v)
           THEN Forward(t, v, "locked")
           ELSE /\ last' = Outcome(t, frame[t], "AssertionError", h, NoValue, FALSE)
                /\ Leave(t)
                /\ UNCHANGED returned
    /\ UNCHANGED <<instances, instances_lock, wire, calls, nops>>

\* ------------------------------------------------------------------- Next
\* The steps of threads T whose operations take their functions from F, their
\* explicit tokens from K and their attribute names from A, at most max
\* operations being started.
Run(T, F, K, A, max) ==
    \/ \E t \in T, func \in F, token \in K :
            nops < max /\ InstanceForFunction(t, func, token)
    \/ \E t \in T, func \in F : nops < max /\ OncePerWorker(t, func)
    \/ \E t \in T : IfnAcquire(t)
    \/ \E t \in T : IfnHit(t)
    \/ \E t \in T : IfnMiss(t)
    \/ \E t \in T : IfnNew(t)
    \/ \E t \in T, h \in HandleIds : nops < max /\ Reduce(t, h)
    \/ \E t \in T, m \in wire : nops < max /\ Unpickle(t, m)
    \/ \E t \in T, h \in HandleIds, attr \in A : nops < max /\ GetAttr(t, h, attr)
    \/ \E t \in T : GvCheck1(t)
    \/ \E t \in T : GvAcquire(t)
    \/ \E t \in T : GvCheck2(t)
    \/ \E t \in T, result \in {"value", "none"} : FactoryReturn(t, result)
    \/ \E t \in T : FactoryRaise(t)
    \/ \E t \in T : GvAssert(t)

Next == Run(Threads, Funcs, ExplicitTokens, Reserved \cup {"x"}, MaxOps)

Spec == Init /\ [][Next]_vars

\* Longer runs over one function, without explicit tokens, which read an
\* attribute the value has and one it lacks.
NextDeep == Run(Threads, {"f"}, {NoToken}, {"x", "y"}, MaxDeepOps)

SpecDeep == Init /\ [][NextDeep]_vars

\* The two threads of process p1, one function and the explicit tokens "a", "b".
NextPair == Run({"t1", "t2"}, {"f"}, {<<"a">>, <<"b">>}, {"x"}, MaxPairOps)

SpecPair == Init /\ [][NextPair]_vars

\* Fair scheduling: a thread that can take its next step, and stays able to,
\* takes it (the interpreter runs every runnable thread; a free lock is handed
\* to a thread waiting for it); a factory invocation that has started ends.
Fair(T) ==
    \A t \in T :
       /\ WF_vars(IfnAcquire(t))
       /\ WF_vars(IfnHit(t))
       /\ WF_vars(IfnMiss(t))
       /\ WF_vars(IfnNew(t))
       /\ WF_vars(GvCheck1(t))
       /\ WF_vars(GvAcquire(t))
       /\ WF_vars(GvCheck2(t))
       /\ WF_vars(FactoryRaise(t) \/ \E result \in {"value", "none"} : FactoryReturn(t, result))
       /\ WF_vars(GvAssert(t))

\* The two threads of process p1 and both functions (two handles), under fair
\* scheduling.
NextLive == Run({"t1", "t2"}, Funcs, {NoToken}, {"x"}, MaxLiveOps)

SpecLive == Init /\ [][NextLive]_vars /\ Fair({"t1", "t2"})

\* ================================================================ claims
IfnOps == {"instance_for_function", "once_per_worker", "unpickle"}
IfnPcs == {"ifn_lock", "ifn_try", "ifn_new"}
LockedPcs == {"gv_check2", "in_func", "gv_assert"}
MarkerNames == {"__dask_graph__", "__name__", "__dask_tokenize__"}

\* The factory invocations made on handle h.
CallsOn(h) == {c \in CallIds : calls[c].h = h}
NoneRaised == \A c \in CallIds : calls[c].outcome # "raised"

\* C1: provided no invocation of the factory raises, the factory of a handle
\* is invoked at most once, whatever the threads calling _get_value do.
C1_AtMostOnceUnlessRaised ==
    NoneRaised => \A h \in HandleIds : Cardinality(CallsOn(h)) <= 1

\* C2: in a process exactly one handle is constructed for a token, and every
\* call of instance_for_function for the token returns that handle.
C2_OneHandlePerToken ==
    /\ \A h1, h2 \in HandleIds :
          (handles[h1].proc = handles[h2].proc /\ handles[h1].token = handles[h2].token)
             => h1 = h2
    /\ \A p \in Procs, k \in Tokens :
          instances[p][k] # NoHandle =>
             /\ instances[p][k] \in HandleIds
             /\ handles[instances[p][k]].proc = p
             /\ handles[instances[p][k]].token = k
    /\ (last.op \in IfnOps /\ last.kind = "ok") =>
          /\ last.h \in HandleIds
          /\ instances[last.proc][last.token_] = last.h

\* A call has just constructed the handle of a token while another thread of
\* the process is inside instance_for_function for the same token.
C2_Witness ==
    /\ last.op = "instance_for_function"
    /\ last.created
    /\ \E t \in Threads :
          /\ pc[t] \in IfnPcs
          /\ ProcOf(t) = last.proc
          /\ frame[t].op = "instance_for_function"
          /\ frame[t].token_ = last.token_

\* C3: unpickling a handle in the process that pickled it returns the handle
\* that was pickled and constructs none; no step of the unpickling starts a
\* factory invocation or changes a handle's value.
C3_SameProcess ==
    (last.op = "unpickle" /\ last.origin \in HandleIds
        /\ handles[last.origin].proc = last.proc)
       => (last.kind = "ok" /\ last.h = last.origin /\ ~last.created)
C3_UnpickleStep ==
    \A t \in Threads :
       ((frame[t].op = "unpickle" \/ frame'[t].op = "unpickle") /\ pc'[t] # pc[t])
          => /\ calls' = calls
             /\ \A h \in HandleIds : handles'[h].value = handles[h].value
C3_Rematerialize == []C3_SameProcess /\ [][C3_UnpickleStep]_vars

\* A handle whose value is populated was pickled and unpickled in its process.
C3_Witness ==
    /\ last.op = "unpickle"
    /\ last.kind = "ok"
    /\ last.h = last.origin
    /\ handles[last.h].proc = last.proc
    /\ handles[last.h].value # NoValue

\* C4: all the values _get_value returns for a handle are one value, the
\* result of one factory invocation made on that handle.
C4_OneValue ==
    /\ \A r1, r2 \in returned : r1[1] = r2[1] => r1[2] = r2[2]
    /\ \A r \in returned :
          /\ r[2] \in CallIds
          /\ calls[r[2]].h = r[1]
          /\ calls[r[2]].outcome = "returned"

\* After a failed invocation, _get_value returned a handle's value by both of
\* its paths.
C4_Witness ==
    \E h \in HandleIds, v \in CallIds :
       /\ <<h, v, "locked">> \in returned
       /\ <<h, v, "fast">> \in returned
       /\ \E c \in CallsOn(h) : c < v /\ calls[c].outcome = "raised"

\* C5: when the factory raises, the handle's lock is free and its value empty
\* afterwards, and no other thread is affected; a handle's lock is only ever
\* held by a thread inside the locked section of _get_value on that handle
\* (so a failure never leaves the handle locked).
C5_RaiseStep ==
    \A t \in Threads :
       (pc[t] = "in_func" /\ frame[t].call \in CallIds
           /\ calls'[frame[t].call].outcome = "raised")
          => /\ handles'[frame[t].h].lock = NoThread
             /\ handles'[frame[t].h].value = NoValue
             /\ last'.kind = "Exception"
             /\ pc'[t] = "idle"
             /\ returned' = returned
             /\ \A u \in Threads \ {t} : pc'[u] = pc[u] /\ frame'[u] = frame[u]
C5_LockHeldInside ==
    \A h \in HandleIds :
       handles[h].lock # NoThread =>
          /\ handles[h].lock \in Threads
          /\ pc[handles[h].lock] \in LockedPcs
          /\ frame[handles[h].lock].h = h
C5_NoPoisoning == []C5_LockHeldInside /\ [][C5_RaiseStep]_vars

\* After an invocation that raised, a later one populated the handle and
\* _get_value returned its result.
C5_Witness ==
    \E h \in HandleIds, c1, c2 \in CallIds :
       /\ c1 < c2
       /\ calls[c1].h = h /\ calls[c1].outcome = "raised"
       /\ calls[c2].h = h /\ calls[c2].outcome = "returned"
       /\ handles[h].value = c2
       /\ handles[h].lock = NoThread
       /\ last.op = "getattr" /\ last.kind = "ok" /\ last.h = h /\ last.val = c2

\* C6: an access to one of the three marker names raises AttributeError at
\* once and leaves every handle (value, lock) and the factory untouched.
C6_MarkerStep ==
    \A t \in Threads, h \in HandleIds, attr \in MarkerNames :
       GetAttr(t, h, attr)
          => /\ last'.op = "getattr" /\ last'.kind = "AttributeError" /\ last'.h = h
             /\ last'.val = NoValue
             /\ handles' = handles
             /\ calls' = calls
             /\ pc' = pc
             /\ returned' = returned
C6_MarkerNames == [][C6_MarkerStep]_vars

\* A marker name was refused on a handle whose value is empty while another
\* thread is running the handle's factory.
C6_Witness ==
    /\ last.op = "getattr" /\ last.kind = "AttributeError" /\ last.val = NoValue
    /\ last.h \in HandleIds
    /\ handles[last.h].value = NoValue
    /\ \E t \in Threads : pc[t] = "in_func" /\ frame[t].h = last.h

\* C7: a handle on which no factory invocation has been made has an empty
\* value; no step of instance_for_function / once_per_worker starts an
\* invocation, and every invocation is started by a thread inside _get_value
\* on behalf of an access to a name that is not a marker name.
C7_EmptyUntilCalled ==
    \A h \in HandleIds : CallsOn(h) = {} => handles[h].value = NoValue
C7_IfnStep ==
    /\ \A t \in Threads :
          ((pc[t] \in IfnPcs \/ pc'[t] \in IfnPcs) /\ pc'[t] # pc[t]) => calls' = calls
    /\ Len(calls') > Len(calls) =>
          \E t \in Threads :
             /\ pc[t] = "gv_check2"
             /\ frame[t].op = "getattr"
             /\ frame[t].attr \notin MarkerNames
             /\ calls'[Len(calls')].h = frame[t].h
C7_LazyFactory == []C7_EmptyUntilCalled /\ [][C7_IfnStep]_vars

\* once_per_worker has just constructed a handle, whose value is empty, while
\* a factory invocation is known to the process.
C7_Witness ==
    /\ last.op = "once_per_worker"
    /\ last.created
    /\ handles[last.h].value = NoValue
    /\ CallsOn(last.h) = {}
    /\ Len(calls) > 0

\* C8: a call of instance_for_function for a token the registry holds returns
\* the handle it holds and changes neither a handle nor the registry; a
\* handle's function and token never change, and every invocation made on a
\* handle is one of the function the handle was constructed with.
C8_HitStep ==
    /\ \A t \in Threads :
          (pc[t] = "ifn_try" /\ instances[ProcOf(t)][frame[t].token_] # NoHandle
              /\ pc'[t] # pc[t])
             => /\ last'.h = instances[ProcOf(t)][frame[t].token_]
                /\ ~last'.created
                /\ handles' = handles
                /\ instances' = instances
                /\ calls' = calls
    /\ \A h \in HandleIds :
          /\ h \in 1..Len(handles')
          /\ handles'[h].func = handles[h].func
          /\ handles'[h].token = handles[h].token
C8_CallsOfOwnFunc ==
    \A c \in CallIds :
       calls[c].h \in HandleIds /\ calls[c].func = handles[calls[c].h].func
C8_FirstWriterWins == []C8_CallsOfOwnFunc /\ [][C8_HitStep]_vars

\* A call with another function returned the handle of a token, whose value
\* the handle's own function had produced.
C8_Witness ==
    /\ last.op = "instance_for_function"
    /\ last.kind = "ok"
    /\ ~last.created
    /\ last.func # handles[last.h].func
    /\ handles[last.h].value # NoValue

\* C9: a call with an explicit token "a" or "b" returns a handle of that very
\* token (so two such tokens never share a handle), and a handle's value is
\* only ever changed by the end of a factory invocation made on that handle.
C9_TokenStep ==
    /\ \A t \in Threads :
          (pc[t] \in IfnPcs /\ pc'[t] = "idle" /\ frame[t].token \in {<<"a">>, <<"b">>})
             => /\ last'.h \in 1..Len(handles')
                /\ handles'[last'.h].token = frame[t].token[1]
    /\ \A h \in HandleIds :
          handles'[h].value # handles[h].value =>
             \E t \in Threads :
                /\ pc[t] = "in_func"
                /\ frame[t].h = h
                /\ frame[t].call \in CallsOn(h)
                /\ handles'[h].value = frame[t].call
C9_DistinctTokens == [][C9_TokenStep]_vars

\* Two handles of the tokens "a" and "b", of the same function and process:
\* one has been initialized by one invocation, the other is still empty.
C9_Witness ==
    \E h1, h2 \in HandleIds :
       /\ handles[h1].token = "a" /\ handles[h2].token = "b"
       /\ handles[h1].proc = handles[h2].proc
       /\ handles[h1].func = handles[h2].func
       /\ handles[h1].value # NoValue
       /\ Cardinality(CallsOn(h1)) = 1
       /\ handles[h2].value = NoValue
       /\ CallsOn(h2) = {}

\* C10: a pickled handle carries no value, and a populated value of a handle
\* is always the result of a factory invocation made on that very handle, so
\* in the handle's own process.
C10_NoValueShipped ==
    /\ \A m \in wire : m.state = NoState
    /\ \A h \in HandleIds :
          handles[h].value # NoValue =>
             /\ handles[h].value \in CallsOn(h)
             /\ calls[handles[h].value].outcome = "returned"

\* A handle whose value is populated was pickled and then unpickled in the
\* other process, where the handle constructed has an empty value.
C10_Witness ==
    /\ last.op = "unpickle"
    /\ last.created
    /\ last.origin \in HandleIds
    /\ handles[last.origin].proc # last.proc
    /\ handles[last.origin].value # NoValue
    /\ handles[last.h].value = NoValue

\* C11: a call with an explicit token, whatever string it is (the empty
\* string included), returns a handle registered under exactly that token.
C11_TokenStep ==
    \A t \in Threads :
       (pc[t] \in IfnPcs /\ pc'[t] = "idle" /\ frame[t].op = "instance_for_function"
           /\ frame[t].token # NoToken)
          => /\ last'.h \in 1..Len(handles')
             /\ handles'[last'.h].token = frame[t].token[1]
C11_ExplicitTokenVerbatim == [][C11_TokenStep]_vars

\* C12: a populated value slot never changes again: no step empties it or
\* stores another value in it.
C12_ValueStep ==
    \A h \in HandleIds :
       handles[h].value # NoValue =>
          /\ h \in 1..Len(handles')
          /\ handles'[h].value = handles[h].value
C12_ValueSetOnce == [][C12_ValueStep]_vars

\* A thread that found the slot empty at its first check holds the lock after
\* the second check found it populated, and has not called the factory.
C12_Witness ==
    \E t \in Threads :
       /\ pc[t] = "gv_assert"
       /\ frame[t].call = 0
       /\ handles[frame[t].h].value # NoValue
       /\ handles[frame[t].h].lock = t

\* C13: a token the registry of a process holds stays in it, bound to the
\* same handle, which stays in the heap.
C13_RegistryStep ==
    \A p \in Procs, k \in Tokens :
       instances[p][k] # NoHandle =>
          /\ instances'[p][k] = instances[p][k]
          /\ instances[p][k] \in 1..Len(handles')
C13_RegistryGrowsOnly == [][C13_RegistryStep]_vars

\* The registry of a process holds two tokens, and a call for the one inserted
\* first has returned its handle after the other was inserted.
C13_Witness ==
    /\ last.op \in IfnOps
    /\ ~last.created
    /\ instances[last.proc][last.token_] = last.h
    /\ \E k \in Tokens :
          /\ instances[last.proc][k] # NoHandle
          /\ instances[last.proc][k] > last.h

\* C14: a thread running a factory does not hold the registry lock of its
\* process; the lock is held only by a thread between the lookup and the
\* return of instance_for_function.
C14_NoRegistryLockInFactory ==
    /\ \A t \in Threads : pc[t] = "in_func" => instances_lock[ProcOf(t)] # t
    /\ \A p \in Procs :
          instances_lock[p] # NoThread =>
             /\ instances_lock[p] \in Threads
             /\ ProcOf(instances_lock[p]) = p
             /\ pc[instances_lock[p]] \in {"ifn_try", "ifn_new"}

\* A thread is running a factory while another thread of its process holds
\* the registry lock.
C14_Witness ==
    \E t, u \in Threads :
       /\ pc[t] = "in_func"
       /\ ProcOf(u) = ProcOf(t)
       /\ instances_lock[ProcOf(t)] = u

\* C15: handles of different tokens do not contend during value computation.
\* A thread inside the locked section of _get_value holds the lock of its own
\* handle and no other; so while a thread is inside the factory of a handle,
\* a thread waiting at the lock of a handle of another token (no third thread
\* being inside a locked section) can acquire it at once.
C15_NoContention ==
    /\ \A t \in Threads :
          pc[t] \in LockedPcs =>
             \A k \in HandleIds : (handles[k].lock = t) <=> (k = frame[t].h)
    /\ \A t, u \in Threads :
          (pc[t] = "in_func" /\ pc[u] = "gv_lock"
              /\ handles[frame[u].h].proc = handles[frame[t].h].proc
              /\ handles[frame[u].h].token # handles[frame[t].h].token
              /\ \A w \in Threads \ {t} : pc[w] \notin LockedPcs)
             => ENABLED GvAcquire(u)

\* While a thread is still inside the factory of one handle, an access to a
\* handle of another token of the process ran that handle's factory, which was
\* called later, and returned its value.
C15_Witness ==
    \E t \in Threads :
       /\ pc[t] = "in_func"
       /\ calls[frame[t].call].outcome = "running"
       /\ last.op = "getattr" /\ last.kind = "ok"
       /\ last.h # frame[t].h
       /\ handles[last.h].proc = handles[frame[t].h].proc
       /\ handles[last.h].token # handles[frame[t].h].token
       /\ last.val > frame[t].call
       /\ calls[last.val].h = last.h

\* C16 (as stated): a call for a token the registry already holds returns
\* without acquiring the registry lock, which is acquired only for a token
\* that was absent. In particular a thread that is alone in its process, so
\* that the registry holds only what its own earlier calls inserted, holds the
\* registry lock only for a token the registry lacks.
C16_FastPathLockFree ==
    \A t \in Threads :
       (pc[t] = "ifn_try" /\ \A u \in Threads \ {t} : ProcOf(u) # ProcOf(t))
          => ~Present(instances[ProcOf(t)], frame[t].token_)

\* C16 (amended): every call of instance_for_function acquires the registry
\* lock first; the one lookup and the insert are made holding it; a call
\* returns from inside the locked block, releasing the lock as it returns:
\* the handle the registry holds, unchanged registry, if the token is present,
\* and otherwise a new handle, inserted by that very step.
C16_LockedInside ==
    \A t \in Threads :
       /\ pc[t] \in {"ifn_try", "ifn_new"} => instances_lock[ProcOf(t)] = t
       /\ pc[t] = "ifn_new" => ~Present(instances[ProcOf(t)], frame[t].token_)
C16_IfnStep ==
    /\ \A t \in Threads :
          (pc[t] = "idle" /\ pc'[t] # "idle" /\ frame'[t].op \in IfnOps)
             => pc'[t] = "ifn_lock"
    /\ \A t \in Threads :
          (pc[t] = "ifn_lock" /\ pc'[t] # pc[t])
             => /\ instances_lock[ProcOf(t)] = NoThread
                /\ instances_lock'[ProcOf(t)] = t
                /\ pc'[t] = "ifn_try"
    /\ \A t \in Threads :
          (pc[t] \in IfnPcs /\ pc'[t] = "idle")
             => /\ pc[t] \in {"ifn_try", "ifn_new"}
                /\ instances_lock[ProcOf(t)] = t
                /\ instances_lock'[ProcOf(t)] = NoThread
                /\ instances'[ProcOf(t)][frame[t].token_] = last'.h
                /\ IF Present(instances[ProcOf(t)], frame[t].token_)
                   THEN instances' = instances /\ ~last'.created
                   ELSE last'.created /\ last'.h = Len(handles) + 1
    /\ instances' # instances =>
          \E t \in Threads :
             /\ pc[t] = "ifn_new"
             /\ instances_lock[ProcOf(t)] = t
             /\ instances' = [instances EXCEPT ![ProcOf(t)][frame[t].token_] = Len(handles) + 1]
C16_SingleCheckUnderLock == []C16_LockedInside /\ [][C16_IfnStep]_vars

\* A call for a token the registry already holds has the registry lock for
\* its lookup, while another call of the process waits for the lock.
C16_Witness ==
    \E t, u \in Threads :
       /\ pc[t] = "ifn_try"
       /\ instances_lock[ProcOf(t)] = t
       /\ Present(instances[ProcOf(t)], frame[t].token_)
       /\ u # t /\ ProcOf(u) = ProcOf(t) /\ pc[u] = "ifn_lock"

\* C17: a factory invocation that returns None leaves the value slot empty;
\* a thread that finds the slot empty at the second check invokes the
\* factory, whatever invocations were made before; and the slot is populated
\* only when some invocation returned an object.
C17_NoneStep ==
    /\ \A t \in Threads :
          (pc[t] = "in_func" /\ frame[t].call \in CallIds
              /\ calls'[frame[t].call].outcome = "none")
             => handles'[frame[t].h].value = NoValue
    /\ \A t \in Threads :
          (pc[t] = "gv_check2" /\ pc'[t] # pc[t] /\ handles[frame[t].h].value = NoValue)
             => /\ pc'[t] = "in_func"
                /\ Len(calls') = Len(calls) + 1
                /\ calls'[Len(calls')].h = frame[t].h
C17_EmptyAfterNone ==
    \A h \in HandleIds :
       (\A c \in CallsOn(h) : calls[c].outcome # "returned") => handles[h].value = NoValue
C18_MutualExclusion ==
    /\ \A t, u \in Threads :
          (pc[t] = "in_func" /\ pc[u] = "in_func" /\ frame[t].h = frame[u].h) => t = u
    /\ \A t \in Threads : pc[t] = "in_func" => handles[frame[t].h].lock = t
    /\ \A c \in CallIds :
          calls[c].outcome = "running" =>
             \E t \in Threads : pc[t] = "in_func" /\ frame[t].call = c /\ frame[t].h = calls[c].h
    /\ \A h \in HandleIds :
          Cardinality({c \in CallsOn(h) : calls[c].outcome = "running"}) <= 1

\* After an invocation of a handle's factory raised, a thread is inside the
\* factory again while another waits for the handle's lock.
C18_Witness ==
    \E t, u \in Threads :
       /\ pc[t] = "in_func"
       /\ pc[u] = "gv_lock"
       /\ frame[u].h = frame[t].h
       /\ \E c \in CallsOn(frame[t].h) : c < frame[t].call /\ calls[c].outcome = "raised"

\* C19: under fair scheduling, factory invocations ending, every call of
\* instance_for_function and every attribute access a thread has started ends
\* (the thread is idle again).
C19_EventuallyReturns ==
    \A t \in Threads : (pc[t] # "idle") ~> (pc[t] = "idle")

\* A thread waits for the lock of a handle while another thread, which holds
\* it, is inside the factory, an earlier invocation having been made.
C19_Witness ==
    \E t, u \in Threads :
       /\ pc[u] = "gv_lock"
       /\ pc[t] = "in_func"
       /\ handles[frame[u].h].lock = t
       /\ frame[t].call > 1

\* C20: whenever a thread reaches the assert of _get_value, the value of its
\* handle is populated.
C20_AssertHolds ==
    \A t \in Threads : pc[t] = "gv_assert" => handles[frame[t].h].value # NoValue

====
